---- MODULE Spec2Model ----
(***************************************************************************)
(* OpenStreamKit: the OAuth (PKCE) login flow, the event subscription and  *)
(* the webhook ingestion of src/app.py, with the library functions of      *)
(* src/kick.py.  Synchronous routes (def) run on worker threads and        *)
(* interleave between their accesses to shared state; the webhook route    *)
(* (async def) runs to completion on the event loop.                       *)
(***************************************************************************)
EXTENDS Integers, Sequences, FiniteSets, TLC

(* ------------------------------ bounds --------------------------------- *)
\* login attempts in one run: each draws a state and a verifier from
\* secrets.token_urlsafe, values that never repeat
NumLogins == 2
StateNames == <<"s1", "s2", "s3">>
VerifierNames == <<"v1", "v2", "v3">>
TokenNames == <<"t1", "t2", "t3">>
\* the access token of a login made before this run
OldToken == "t0"

\* worker threads of the server's thread pool that run the synchronous routes
Threads == {1, 2}
\* values of `state` a client can present, before or after a login issues them
States == {StateNames[i] : i \in 1..NumLogins}
Verifiers == {VerifierNames[i] : i \in 1..NumLogins}
\* access tokens (non-empty strings): the upstream issues a new one at
\* every exchange of a code
Tokens == {TokenNames[i] : i \in 1..NumLogins} \cup {OldToken}
\* the access token the upstream issues for the code of the login with `verifier`
TokenFor(verifier) == TokenNames[CHOOSE i \in 1..NumLogins : VerifierNames[i] = verifier]

\* Python's None; as a dict value it stands for "key not in the dict"
None == "None"

\* HTTP statuses the token endpoint answers with
StatusCodes == {200, 400, 500}
\* response bodies: one that parses as JSON and one that does not
JsonText == "{...}"
PlainText == "Bad Gateway"

VARIABLES
    PKCE_STORE,  \* app.PKCE_STORE / kick.PKCE_STORE: state -> verifier
    TOKENS,      \* app.TOKENS: the in-memory token cache
    files,       \* the files under JSON_DIR
    th,          \* the worker threads: the request each one handles
    running,     \* FALSE when the startup code raised (no app is served)
    response,    \* the response the last step sent, with the request's record
    DEBUG_PAYLOADS, \* os.getenv("DEBUG_PAYLOADS", "0") == "1"
    webhook,     \* the last webhook delivery: payload, dispatch, log line, response
    issued,      \* history: number of logins served, over all restarts
    partial_seen, \* history: a /callback of this process ended in partial success
    yields       \* history: pops of this process that returned state's verifier

vars == <<PKCE_STORE, TOKENS, files, th, running, response, DEBUG_PAYLOADS, webhook,
          issued, partial_seen, yields>>

(* ------------------------------ dicts ---------------------------------- *)
\* `key in dict`, for dicts whose absent keys map to None
Has(d, k) == d[k] # None

\* a test that takes every value, None too, for a verifier
Truthy_any(x) == TRUE

\* truthiness of a str | None
Truthy(x) == x # None

(* ------------------------------ files ---------------------------------- *)
TokenDicts == [access_token : Tokens \cup {None}]
NoToken == [access_token |-> None]
NoSub == [status_code |-> 0, text |-> "", json |-> None]

AbsentToken == [kind |-> "absent", data |-> NoToken]
CorruptToken == [kind |-> "corrupt", data |-> NoToken]
AbsentSub == [kind |-> "absent", data |-> NoSub]
JsonFile(data) == [kind |-> "json", data |-> data]

TOKEN_FILE == "token"
LAST_SUBSCRIBE == "last_subscribe_response"
LAST_WEBHOOK_FILE == "last_webhook"
LAST_CHAT == "last_chat"
LAST_FOLLOW == "last_follow"

\* a webhook body (a JSON object): message_id, content and foo are None when
\* the key is missing; sender and follower are missing, a mapping (username
\* None: no such key) or a value that is no mapping (a string, null, a list).
\* The values of sender and follower, when both are present, are of one kind.
Absent == [kind |-> "absent", username |-> None]
Value(kind, name) ==
    [kind |-> IF kind = "other" THEN "other" ELSE "mapping",
     username |-> IF kind = "user" THEN name ELSE None]
Payloads ==
    {[message_id |-> IF m THEN "1" ELSE None,
      sender |-> IF s THEN Value(k, "alice") ELSE Absent,
      content |-> IF c THEN "hi" ELSE None,
      follower |-> IF f THEN Value(k, "bob") ELSE Absent,
      foo |-> IF x THEN "bar" ELSE None] :
        m \in BOOLEAN, s \in BOOLEAN, c \in BOOLEAN, f \in BOOLEAN, x \in BOOLEAN,
        k \in {"user", "nouser", "other"}}
NoPayload == [message_id |-> None, sender |-> Absent, content |-> None,
              follower |-> Absent, foo |-> None]
AbsentPayload == [kind |-> "absent", data |-> NoPayload]

\* save_json(data, filename): open(..., "w") truncates, json.dump writes
save_json(fs, data, filename) == [fs EXCEPT ![filename] = JsonFile(data)]

\* a load_token that also catches the parse error and returns None
load_token_lenient(fs) ==
    IF fs[TOKEN_FILE].kind \in {"absent", "corrupt"}
    THEN [raised |-> FALSE, saved |-> None, data |-> NoToken]
    ELSE [raised |-> FALSE, saved |-> "dict", data |-> fs[TOKEN_FILE].data]

\* load_token(): None when the file is missing, the parsed dict when it is
\* JSON, and an uncaught json.JSONDecodeError otherwise
load_token(fs) ==
    IF fs[TOKEN_FILE].kind = "absent" THEN [raised |-> FALSE, saved |-> None, data |-> NoToken]
    ELSE IF fs[TOKEN_FILE].kind = "corrupt" THEN [raised |-> TRUE, saved |-> None, data |-> NoToken]
    ELSE [raised |-> FALSE, saved |-> "dict", data |-> fs[TOKEN_FILE].data]

\* startup: TOKENS after `saved = load_token(); if saved and "access_token" in saved`
startup_TOKENS(fs) ==
    LET l == load_token(fs) IN
    IF l.saved # None /\ Has(l.data, "access_token")
    THEN [access_token |-> l.data.access_token]
    ELSE [access_token |-> None]

(* --------------------------- login state store ------------------------- *)
\* a pop that hands out the verifier stored last (PKCE_STORE.popitem()[1])
\* whenever the state is in the store
pop_verifier_last(store, state) ==
    IF store[state] = None THEN None
    ELSE LET stored == {i \in 1..NumLogins : store[StateNames[i]] # None}
             last == CHOOSE i \in stored : \A j \in stored : j <= i
         IN store[StateNames[last]]

\* kick.pop_verifier / PKCE_STORE.pop(state, None): the value returned
pop_verifier(store, state) == store[state]

\* PKCE_STORE.clear() in place of pop: every entry goes
pop_store_clears(store, state) == [s \in States |-> None]

\* PKCE_STORE.get(state) in place of pop: the entry stays
pop_store_keeps(store, state) == store

\* kick.pop_verifier / PKCE_STORE.pop(state, None): the store afterwards
pop_store(store, state) == [store EXCEPT ![state] = None]

\* a login that drops the entries of earlier logins: one pending login at most
put_verifier_only(store, state, verifier) ==
    [s \in States |-> IF s = state THEN verifier ELSE None]

\* PKCE_STORE[state] = verifier
put_verifier(store, state, verifier) == [store EXCEPT ![state] = verifier]

(* ------------------------------ authorize URL -------------------------- *)
\* the S256 challenges of the verifiers: base64url(sha256(verifier)), a
\* one-way injective image that is no verifier
ChallengeNames == <<"c1", "c2", "c3">>

\* code_challenge_method "plain": the challenge is the verifier
pkce_challenge_plain(verifier) == verifier

\* pkce_challenge_s256(verifier)
pkce_challenge_s256(verifier) ==
    ChallengeNames[CHOOSE i \in 1..NumLogins : VerifierNames[i] = verifier]

\* the query of the authorize URL, by parameter
NoUrl == [response_type |-> None, client_id |-> None, redirect_uri |-> None,
          scope |-> None, code_challenge |-> None, code_challenge_method |-> None,
          state |-> None]

\* kick.build_auth_url / the dict q of login_page
build_auth_url(state, challenge) ==
    [response_type |-> "code", client_id |-> "CLIENT_ID", redirect_uri |-> "REDIRECT_URI",
     scope |-> "events:subscribe", code_challenge |-> challenge,
     code_challenge_method |-> "S256", state |-> state]

(* ------------------------------ upstream ------------------------------- *)
NoAnswer == [kind |-> "none", status |-> 0, json_ctype |-> FALSE, body |-> PlainText]
NetFail == [kind |-> "netfail", status |-> 0, json_ctype |-> FALSE, body |-> PlainText]

\* what the token endpoint can answer to requests.post(..., timeout=20):
\* no answer in time or no connection, an error status, or 200 with a body
\* that is not JSON, a dict without access_token, or the token dict. It
\* checks code_verifier against the challenge of the login: a value that is
\* no login's verifier gets an error
ExchangeErrors ==
    {[kind |-> "netfail", status |-> 0, valid |-> FALSE, token |-> NoToken]}
    \cup {[kind |-> "http", status |-> s, valid |-> FALSE, token |-> NoToken] :
            s \in {c \in StatusCodes : c >= 400}}
\* a token endpoint that never answers a request that has no timeout
ExchangeAnswers_mute(verifier) == {}

ExchangeAnswers(verifier) ==
    IF verifier \notin Verifiers THEN ExchangeErrors
    ELSE ExchangeErrors
         \cup {[kind |-> "http", status |-> 200, valid |-> FALSE, token |-> NoToken]}
         \cup {[kind |-> "http", status |-> 200, valid |-> TRUE, token |-> d] :
                 d \in {NoToken, [access_token |-> TokenFor(verifier)]}}

\* what the subscriptions endpoint can answer: no answer in time or no
\* connection; a success and a client error with a JSON body declared
\* application/json; a server error with a body declared otherwise; a server
\* error declared application/json whose body is not JSON
HttpAnswer(status, json_ctype, body) ==
    [kind |-> "http", status |-> status, json_ctype |-> json_ctype, body |-> body]
SubscribeAnswers ==
    {NetFail,
     HttpAnswer(200, TRUE, JsonText),
     HttpAnswer(400, TRUE, JsonText),
     HttpAnswer(500, FALSE, PlainText),
     HttpAnswer(500, TRUE, PlainText)}

\* what r.json() of the exchange made of the body: not reached, raised, a dict
parsed_body(x) ==
    IF x.raised \in {"RequestException", "HTTPError"} THEN "none"
    ELSE IF x.raised = "JSONDecodeError" THEN "notjson"
    ELSE "dict"

\* a raise_for_status that lets the 4xx statuses through
raise_for_status_5xx(status) == status >= 500

\* Response.raise_for_status(): HTTPError for 400 <= status < 600
raise_for_status(status) == status >= 400

\* Response.json(): raises when the body is not JSON
json_raises(body) == body # JsonText

\* kick.exchange_code_for_token: requests.post, raise_for_status, r.json()
exchange_code_for_token(ans) ==
    IF ans.kind = "netfail" THEN [raised |-> "RequestException", token |-> NoToken]
    ELSE IF raise_for_status(ans.status) THEN [raised |-> "HTTPError", token |-> NoToken]
    ELSE IF ~ans.valid THEN [raised |-> "JSONDecodeError", token |-> NoToken]
    ELSE [raised |-> None, token |-> ans.token]

\* do_subscribe: requests.post raises on a network failure; otherwise the
\* result dict, whose "json" calls r.json() when the content-type is JSON
do_subscribe(access_token, ans) ==
    IF ans.kind = "netfail" THEN [raised |-> TRUE, result |-> NoSub]
    ELSE IF ans.json_ctype /\ json_raises(ans.body) THEN [raised |-> TRUE, result |-> NoSub]
    ELSE [raised |-> FALSE,
          result |-> [status_code |-> ans.status, text |-> ans.body,
                      json |-> IF ans.json_ctype THEN ans.body ELSE None]]

\* a threshold that takes the 4xx statuses for a success
sub_failed_5xx(sub) == sub.status_code >= 500

\* sub.get("status_code", 0) >= 400
sub_failed(sub) == sub.status_code >= 400

(* ------------------------------ webhook -------------------------------- *)
\* `key in payload`
In(payload, key) ==
    IF key \in {"sender", "follower"} THEN payload[key].kind # "absent"
    ELSE payload[key] # None

\* payload.get(key, {}).get("username", "unknown"): AttributeError when the
\* value is no mapping
get_username(payload, key) ==
    LET v == payload[key] IN
    IF v.kind = "other" THEN [raised |-> TRUE, value |-> None]
    ELSE IF v.kind = "absent" \/ v.username = None THEN [raised |-> FALSE, value |-> "unknown"]
    ELSE [raised |-> FALSE, value |-> v.username]

\* handle_chat_message: the log line [CHAT] sender: content
handle_chat_message(payload) ==
    LET sender == get_username(payload, "sender")
        content == IF In(payload, "content") THEN payload.content ELSE ""
    IN [raised |-> sender.raised, user |-> sender.value, content |-> content]

\* handle_follow: the log line [FOLLOW] user
handle_follow(payload) ==
    LET user == get_username(payload, "follower")
    IN [raised |-> user.raised, user |-> user.value, content |-> ""]

\* a chat test that leaves "content" out
classify_no_content(payload) ==
    IF In(payload, "message_id") /\ In(payload, "sender") THEN "Chat"
    ELSE IF In(payload, "follower") THEN "Follow"
    ELSE "Unknown"

\* the two tests in the other order
classify_follow_first(payload) ==
    IF In(payload, "follower") THEN "Follow"
    ELSE IF In(payload, "message_id") /\ In(payload, "sender") /\ In(payload, "content") THEN "Chat"
    ELSE "Unknown"

\* the if / elif / fall-through of kick_webhook
classify(payload) ==
    IF In(payload, "message_id") /\ In(payload, "sender") /\ In(payload, "content") THEN "Chat"
    ELSE IF In(payload, "follower") THEN "Follow"
    ELSE "Unknown"

NoWebhook == [payload |-> NoPayload, class |-> "none", handler |-> "none",
              user |-> None, content |-> "", outcome |-> "none"]

(* ------------------------------ threads -------------------------------- *)
\* a thread's request: the route, the position in the handler, the handler's
\* live locals, the upstream answers it got, the authorize URL it rendered and
\* the code_verifier it sent in the form of the token exchange
Idle == [route |-> "none", pc |-> "idle", state |-> None, verifier |-> None,
         access_token |-> None, html |-> FALSE, outcome |-> "none", returned |-> NoSub,
         xkind |-> "none", xstatus |-> 0, xbody |-> "none", sans |-> NoAnswer,
         auth_url |-> NoUrl, code_verifier |-> None]

\* no response is sent by a step that does not end a request
NoResponse == Idle

\* thread t goes on with its request, now r
Continue(t, r) ==
    /\ th' = [th EXCEPT ![t] = r]
    /\ response' = NoResponse

\* the pool hands a request to a free thread: the first one
Free(t) == th[t].pc = "idle" /\ \A u \in Threads : u < t => th[u].pc # "idle"

\* thread t's handler returns: the response is sent, the thread is free
Finish(t, r, outcome) ==
    /\ th' = [th EXCEPT ![t] = Idle]
    /\ response' = [r EXCEPT !.pc = "done", !.outcome = outcome]

\* the module-level code: os.makedirs, load_token, the token cache
Startup(fs, debug) ==
    /\ PKCE_STORE = [s \in States |-> None]
    /\ files = fs
    /\ running = ~load_token(fs).raised
    /\ TOKENS = IF running THEN startup_TOKENS(fs) ELSE NoToken
    /\ th = [t \in Threads |-> Idle]
    /\ response = NoResponse
    /\ DEBUG_PAYLOADS = debug
    /\ webhook = NoWebhook
    /\ issued = 0
    /\ partial_seen = FALSE
    /\ yields = [s \in States |-> 0]

NoFiles == [token |-> AbsentToken, last_subscribe_response |-> AbsentSub,
            last_webhook |-> AbsentPayload, last_chat |-> AbsentPayload,
            last_follow |-> AbsentPayload]

\* the process starts with no token file, a token file of an earlier run
\* (with or without access_token) or one that is not JSON
Init ==
    \E tf \in {AbsentToken, CorruptToken, JsonFile(NoToken), JsonFile([access_token |-> OldToken])} :
        Startup([NoFiles EXCEPT !.token = tf], FALSE)

\* the process is stopped and started again: the module-level code runs anew
Restart ==
    /\ running
    /\ PKCE_STORE' = [s \in States |-> None]
    /\ running' = ~load_token(files).raised
    /\ TOKENS' = IF running' THEN startup_TOKENS(files) ELSE NoToken
    /\ th' = [t \in Threads |-> Idle]
    /\ response' = [NoResponse EXCEPT !.route = "restart"]
    /\ partial_seen' = FALSE
    /\ yields' = [s \in States |-> 0]
    /\ UNCHANGED <<files, DEBUG_PAYLOADS, webhook, issued>>

(* ------------------------------- /login -------------------------------- *)
\* verifier = pkce_verifier(); state = secrets.token_urlsafe(16);
\* PKCE_STORE[state] = verifier
login_page ==
    /\ running
    /\ issued < NumLogins
    /\ LET state == StateNames[issued + 1]
           verifier == VerifierNames[issued + 1]
       IN /\ PKCE_STORE' = put_verifier(PKCE_STORE, state, verifier)
          /\ yields' = [yields EXCEPT ![state] = 0]
          /\ response' = [NoResponse EXCEPT !.route = "login", !.pc = "done", !.state = state,
                               !.auth_url = build_auth_url(state, pkce_challenge_s256(verifier))]
    /\ issued' = issued + 1
    /\ UNCHANGED <<TOKENS, files, th, running, DEBUG_PAYLOADS, webhook, partial_seen>>

(* ------------------------------ /callback ------------------------------ *)
\* GET /callback?code=..&state=.. reaches a worker thread
callback_request(t, state) ==
    /\ running
    /\ Free(t)
    /\ Continue(t, [Idle EXCEPT !.route = "callback", !.pc = "pop", !.state = state])
    /\ UNCHANGED <<PKCE_STORE, TOKENS, files, running, DEBUG_PAYLOADS, webhook, issued, partial_seen, yields>>

\* a pop in two steps (get, then del) that another thread standing at the pop
\* of the same state overtakes: both read the entry before either deletes it
callback_pop_torn(t) ==
    /\ th[t].route = "callback" /\ th[t].pc = "pop"
    /\ LET state == th[t].state
           verifier == pop_verifier(PKCE_STORE, state)
           raced == \E u \in Threads :
                        u # t /\ th[u].route = "callback" /\ th[u].pc = "pop"
                        /\ th[u].state = state
       IN /\ PKCE_STORE' = IF raced THEN PKCE_STORE ELSE pop_store(PKCE_STORE, state)
          /\ yields' = [yields EXCEPT ![state] = IF verifier # None THEN @ + 1 ELSE @]
          /\ IF ~Truthy(verifier)
             THEN Finish(t, th[t], "failure")
             ELSE Continue(t, [th[t] EXCEPT !.verifier = verifier, !.pc = "exchange"])
    /\ UNCHANGED <<TOKENS, files, running, DEBUG_PAYLOADS, webhook, issued, partial_seen>>

\* verifier = PKCE_STORE.pop(state, None); if not verifier: redirect to /failure
callback_pop(t) ==
    /\ th[t].route = "callback" /\ th[t].pc = "pop"
    /\ LET state == th[t].state
           verifier == pop_verifier(PKCE_STORE, state)
       IN /\ PKCE_STORE' = pop_store(PKCE_STORE, state)
          /\ yields' = [yields EXCEPT ![state] = IF verifier # None THEN @ + 1 ELSE @]
          /\ IF ~Truthy(verifier)
             THEN Finish(t, th[t], "failure")
             ELSE Continue(t, [th[t] EXCEPT !.verifier = verifier, !.pc = "exchange"])
    /\ UNCHANGED <<TOKENS, files, running, DEBUG_PAYLOADS, webhook, issued, partial_seen>>

\* a callback that forgets the cached token when the exchange fails
callback_exchange_clears(t) ==
    /\ th[t].route = "callback" /\ th[t].pc = "exchange"
    /\ \E ans \in ExchangeAnswers(th[t].verifier) :
        LET x == exchange_code_for_token(ans)
            r == [th[t] EXCEPT !.xkind = ans.kind, !.xstatus = ans.status,
                               !.xbody = parsed_body(x),
                               !.code_verifier = th[t].verifier]
        IN IF x.raised \in {"RequestException", "HTTPError"}
           THEN /\ Finish(t, r, "failure")
                /\ TOKENS' = NoToken
                /\ UNCHANGED files
           ELSE IF x.raised = "JSONDecodeError"
           THEN /\ Finish(t, r, "error500")
                /\ UNCHANGED <<TOKENS, files>>
           ELSE /\ files' = save_json(files, x.token, TOKEN_FILE)
                /\ UNCHANGED TOKENS
                /\ IF Has(x.token, "access_token")
                   THEN Continue(t, [r EXCEPT !.verifier = None, !.pc = "cache",
                                              !.access_token = x.token.access_token])
                   ELSE Finish(t, r, "error500")
    /\ UNCHANGED <<PKCE_STORE, running, DEBUG_PAYLOADS, webhook, issued, partial_seen, yields>>

\* a callback that puts the verifier back under its state when the exchange
\* raises, so that the same link can be tried again
callback_exchange_restores(t) ==
    /\ th[t].route = "callback" /\ th[t].pc = "exchange"
    /\ \E ans \in ExchangeAnswers(th[t].verifier) :
        LET x == exchange_code_for_token(ans)
            r == [th[t] EXCEPT !.xkind = ans.kind, !.xstatus = ans.status,
                               !.xbody = parsed_body(x),
                               !.code_verifier = th[t].verifier]
        IN IF x.raised \in {"RequestException", "HTTPError"}
           THEN /\ Finish(t, r, "failure")
                /\ PKCE_STORE' = put_verifier(PKCE_STORE, th[t].state, th[t].verifier)
                /\ UNCHANGED files
           ELSE IF x.raised = "JSONDecodeError"
           THEN /\ Finish(t, r, "error500")
                /\ UNCHANGED <<PKCE_STORE, files>>
           ELSE /\ files' = save_json(files, x.token, TOKEN_FILE)
                /\ UNCHANGED PKCE_STORE
                /\ IF Has(x.token, "access_token")
                   THEN Continue(t, [r EXCEPT !.verifier = None, !.pc = "cache",
                                              !.access_token = x.token.access_token])
                   ELSE Finish(t, r, "error500")
    /\ UNCHANGED <<TOKENS, running, DEBUG_PAYLOADS, webhook, issued, partial_seen, yields>>

\* the token exchange: requests.post + raise_for_status inside try/except
\* RequestException, then token = r.json(), save_json(token, TOKEN_FILE),
\* access_token = token["access_token"]
callback_exchange(t) ==
    /\ th[t].route = "callback" /\ th[t].pc = "exchange"
    /\ \E ans \in ExchangeAnswers(th[t].verifier) :
        LET x == exchange_code_for_token(ans)
            r == [th[t] EXCEPT !.xkind = ans.kind, !.xstatus = ans.status,
                               !.xbody = parsed_body(x),
                               !.code_verifier = th[t].verifier]
        IN IF x.raised \in {"RequestException", "HTTPError"}
           THEN /\ Finish(t, r, "failure")
                /\ UNCHANGED files
           ELSE IF x.raised = "JSONDecodeError"
           THEN /\ Finish(t, r, "error500")
                /\ UNCHANGED files
           ELSE /\ files' = save_json(files, x.token, TOKEN_FILE)
                /\ IF Has(x.token, "access_token")
                   THEN Continue(t, [r EXCEPT !.verifier = None, !.pc = "cache",
                                              !.access_token = x.token.access_token])
                   ELSE Finish(t, r, "error500")
    /\ UNCHANGED <<PKCE_STORE, TOKENS, running, DEBUG_PAYLOADS, webhook, issued, partial_seen, yields>>

\* a callback that subscribes without writing the token to the cache
callback_cache_skips(t) ==
    /\ th[t].route = "callback" /\ th[t].pc = "cache"
    /\ Continue(t, [th[t] EXCEPT !.pc = "subscribe"])
    /\ UNCHANGED <<PKCE_STORE, TOKENS, files, running, DEBUG_PAYLOADS, webhook, issued, partial_seen, yields>>

\* TOKENS["access_token"] = access_token
callback_cache(t) ==
    /\ th[t].route = "callback" /\ th[t].pc = "cache"
    /\ TOKENS' = [TOKENS EXCEPT !.access_token = th[t].access_token]
    /\ Continue(t, [th[t] EXCEPT !.pc = "subscribe"])
    /\ UNCHANGED <<PKCE_STORE, files, running, DEBUG_PAYLOADS, webhook, issued, partial_seen, yields>>

\* a callback that subscribes with the token it reads back from the cache
callback_subscribe_cached(t, ans) ==
    /\ th[t].route = "callback" /\ th[t].pc = "subscribe"
    /\ LET s == do_subscribe(TOKENS.access_token, ans)
           r == [th[t] EXCEPT !.sans = ans, !.access_token = TOKENS.access_token]
       IN IF s.raised
          THEN /\ Finish(t, r, "error500")
               /\ UNCHANGED <<files, partial_seen>>
          ELSE /\ files' = save_json(files, s.result, LAST_SUBSCRIBE)
               /\ Finish(t, r, IF sub_failed(s.result) THEN "partial_success" ELSE "success")
               /\ partial_seen' = (partial_seen \/ sub_failed(s.result))
    /\ UNCHANGED <<PKCE_STORE, TOKENS, running, DEBUG_PAYLOADS, webhook, issued, yields>>

\* sub = do_subscribe(access_token); save_json(sub, "last_subscribe_response.json");
\* redirect to /partial-success when sub.get("status_code", 0) >= 400, else /success
callback_subscribe(t, ans) ==
    /\ th[t].route = "callback" /\ th[t].pc = "subscribe"
    /\ LET s == do_subscribe(th[t].access_token, ans)
           r == [th[t] EXCEPT !.sans = ans]
       IN IF s.raised
          THEN /\ Finish(t, r, "error500")
               /\ UNCHANGED <<files, partial_seen>>
          ELSE /\ files' = save_json(files, s.result, LAST_SUBSCRIBE)
               /\ Finish(t, r, IF sub_failed(s.result) THEN "partial_success" ELSE "success")
               /\ partial_seen' = (partial_seen \/ sub_failed(s.result))
    /\ UNCHANGED <<PKCE_STORE, TOKENS, running, DEBUG_PAYLOADS, webhook, issued, yields>>

(* ------------------------------ /subscribe ----------------------------- *)
\* POST /subscribe reaches a worker thread; html: "text/html" in the Accept header
subscribe_request(t, html) ==
    /\ running
    /\ Free(t)
    /\ Continue(t, [Idle EXCEPT !.route = "subscribe", !.pc = "read", !.html = html])
    /\ UNCHANGED <<PKCE_STORE, TOKENS, files, running, DEBUG_PAYLOADS, webhook, issued, partial_seen, yields>>

\* a /subscribe without the no-token test
subscribe_read_goes_on(t) ==
    /\ th[t].route = "subscribe" /\ th[t].pc = "read"
    /\ Continue(t, [th[t] EXCEPT !.access_token = TOKENS.access_token, !.pc = "subscribe"])
    /\ UNCHANGED <<PKCE_STORE, TOKENS, files, running, DEBUG_PAYLOADS, webhook, issued, partial_seen, yields>>

\* access_token = TOKENS.get("access_token"); if not access_token: the
\* redirect to /failure for an HTML client, {"error": ...} otherwise
subscribe_read(t) ==
    /\ th[t].route = "subscribe" /\ th[t].pc = "read"
    /\ LET access_token == TOKENS.access_token
       IN IF ~Truthy(access_token)
          THEN Finish(t, th[t], IF th[t].html THEN "failure" ELSE "error_json")
          ELSE Continue(t, [th[t] EXCEPT !.access_token = access_token, !.pc = "subscribe"])
    /\ UNCHANGED <<PKCE_STORE, TOKENS, files, running, DEBUG_PAYLOADS, webhook, issued, partial_seen, yields>>

\* result = do_subscribe(access_token); save_json(result, ...); for an HTML
\* client the redirect by result.get("status_code", 0) >= 400, else `result`
subscribe_call(t, ans) ==
    /\ th[t].route = "subscribe" /\ th[t].pc = "subscribe"
    /\ LET s == do_subscribe(th[t].access_token, ans)
           r == [th[t] EXCEPT !.sans = ans]
       IN IF s.raised
          THEN /\ Finish(t, r, "error500")
               /\ UNCHANGED files
          ELSE /\ files' = save_json(files, s.result, LAST_SUBSCRIBE)
               /\ IF th[t].html
                  THEN Finish(t, r, IF sub_failed(s.result) THEN "partial_success" ELSE "success")
                  ELSE Finish(t, [r EXCEPT !.returned = s.result], "result_json")
    /\ UNCHANGED <<PKCE_STORE, TOKENS, running, DEBUG_PAYLOADS, webhook, issued, partial_seen, yields>>

(* ----------------------------- /subscribe-ui --------------------------- *)
\* GET /subscribe-ui reaches a worker thread
subscribe_ui_request(t) ==
    /\ running
    /\ Free(t)
    /\ Continue(t, [Idle EXCEPT !.route = "subscribe_ui", !.pc = "read"])
    /\ UNCHANGED <<PKCE_STORE, TOKENS, files, running, DEBUG_PAYLOADS, webhook, issued, partial_seen, yields>>

\* access_token = TOKENS.get("access_token"); if not access_token: redirect to /failure
subscribe_ui_read(t) ==
    /\ th[t].route = "subscribe_ui" /\ th[t].pc = "read"
    /\ LET access_token == TOKENS.access_token
       IN IF ~Truthy(access_token)
          THEN Finish(t, th[t], "failure")
          ELSE Continue(t, [th[t] EXCEPT !.access_token = access_token, !.pc = "subscribe"])
    /\ UNCHANGED <<PKCE_STORE, TOKENS, files, running, DEBUG_PAYLOADS, webhook, issued, partial_seen, yields>>

\* result = do_subscribe(access_token); save_json(result, ...); the redirect
\* by result.get("status_code", 0) >= 400
subscribe_ui_call(t, ans) ==
    /\ th[t].route = "subscribe_ui" /\ th[t].pc = "subscribe"
    /\ LET s == do_subscribe(th[t].access_token, ans)
           r == [th[t] EXCEPT !.sans = ans]
       IN IF s.raised
          THEN /\ Finish(t, r, "error500")
               /\ UNCHANGED files
          ELSE /\ files' = save_json(files, s.result, LAST_SUBSCRIBE)
               /\ Finish(t, r, IF sub_failed(s.result) THEN "partial_success" ELSE "success")
    /\ UNCHANGED <<PKCE_STORE, TOKENS, running, DEBUG_PAYLOADS, webhook, issued, partial_seen, yields>>

(* ----------------------------- /kick/webhook --------------------------- *)
\* POST /kick/webhook with a JSON object: the raw payload is saved in debug
\* mode, then the handler of the payload's class runs (it saves its snapshot
\* in debug mode, after the log line); an exception of the handler is the
\* framework's 500 response
kick_webhook(payload) ==
    /\ running
    /\ LET class == classify(payload)
           fs1 == IF DEBUG_PAYLOADS THEN save_json(files, payload, LAST_WEBHOOK_FILE) ELSE files
           h == IF class = "Chat" THEN handle_chat_message(payload)
                ELSE IF class = "Follow" THEN handle_follow(payload)
                ELSE [raised |-> FALSE, user |-> None, content |-> ""]
           snapshot == IF class = "Chat" THEN LAST_CHAT ELSE LAST_FOLLOW
       IN /\ files' = IF class # "Unknown" /\ ~h.raised /\ DEBUG_PAYLOADS
                      THEN save_json(fs1, payload, snapshot)
                      ELSE fs1
          /\ webhook' = [payload |-> payload, class |-> class,
                         handler |-> IF class = "Chat" THEN "handle_chat_message"
                                     ELSE IF class = "Follow" THEN "handle_follow"
                                     ELSE "none",
                         user |-> h.user, content |-> h.content,
                         outcome |-> IF h.raised THEN "error500" ELSE "ok"]
    /\ UNCHANGED <<PKCE_STORE, TOKENS, th, running, response, DEBUG_PAYLOADS, issued,
                   partial_seen, yields>>

Next ==
    \/ login_page
    \/ Restart
    \/ \E t \in Threads, s \in States : callback_request(t, s)
    \/ \E t \in Threads : callback_pop(t)
    \/ \E t \in Threads : callback_exchange(t)
    \/ \E t \in Threads : callback_cache(t)
    \/ \E t \in Threads, a \in SubscribeAnswers : callback_subscribe(t, a)
    \/ \E t \in Threads, html \in BOOLEAN : subscribe_request(t, html)
    \/ \E t \in Threads : subscribe_read(t)
    \/ \E t \in Threads, a \in SubscribeAnswers : subscribe_call(t, a)
    \/ \E t \in Threads : subscribe_ui_request(t)
    \/ \E t \in Threads : subscribe_ui_read(t)
    \/ \E t \in Threads, a \in SubscribeAnswers : subscribe_ui_call(t, a)

Spec == Init /\ [][Next]_vars

\* the webhook route alone, with debug mode off or on
WebhookInit == \E debug \in BOOLEAN : Startup(NoFiles, debug)

WebhookNext == \E payload \in Payloads : kick_webhook(payload)

WebhookSpec == WebhookInit /\ [][WebhookNext]_vars

(* ------------------------------ properties ----------------------------- *)
\* thread t takes the step at position pc of a request to route (every step of
\* a request moves its position; a restart ends the requests in flight)
StepOf(t, route, pc) ==
    /\ th[t].route = route /\ th[t].pc = pc
    /\ th'[t] # th[t]
    /\ response'.route # "restart"

\* the record of thread t's request after its step: the response when the
\* step ended the request
After(t) == IF th'[t].pc = "idle" THEN response' ELSE th'[t]

\* C1: a login state is single-use. The pop of /callback hands the handler
\* the verifier stored under the state (nothing when none is stored) and
\* leaves no entry under it, so between its store and the end of the process
\* at most one pop of a state yields its verifier.
C1_SingleUse ==
    /\ [](\A s \in States : yields[s] <= 1)
    /\ [][\A t \in Threads :
            StepOf(t, "callback", "pop") =>
                /\ After(t).verifier = PKCE_STORE[th[t].state]
                /\ PKCE_STORE'[th[t].state] = None]_vars

\* a second callback with a state whose verifier was handed out once is refused
C1_Witness ==
    /\ response.route = "callback" /\ response.outcome = "failure"
    /\ response.state \in States /\ response.xkind = "none"
    /\ yields[response.state] = 1

\* C2: on /callback, /subscribe and /subscribe-ui a subscription call is made
\* only while the cache holds an access token: whenever a request stands at
\* its do_subscribe call, and whenever a call got its answer, TOKENS has an
\* access_token, and the call carries a token.
C2_SubscribeNeedsToken ==
    /\ \A t \in Threads : th[t].pc = "subscribe" =>
            Truthy(TOKENS.access_token) /\ Truthy(th[t].access_token)
    /\ response.sans.kind # "none" =>
            Truthy(TOKENS.access_token) /\ Truthy(response.access_token)

\* /subscribe-ui called the upstream with the cached token
C2_Witness ==
    /\ response.route = "subscribe_ui" /\ response.sans.kind = "http"
    /\ response.access_token = TOKENS.access_token

\* C3: a /callback whose state has no entry in the store (never issued, or
\* consumed) ends at the pop with the failure response: no token exchange and
\* no subscription call is made for it.
C3_UnknownState ==
    [][\A t \in Threads :
        StepOf(t, "callback", "pop") /\ PKCE_STORE[th[t].state] = None =>
            /\ th'[t].pc = "idle"
            /\ response'.route = "callback" /\ response'.pc = "done"
            /\ response'.outcome = "failure"
            /\ response'.xkind = "none"
            /\ response'.sans = NoAnswer
            /\ UNCHANGED <<TOKENS, files>>]_vars

\* a callback with a state no login has issued yet got the failure response
C3_Witness ==
    /\ issued = 0
    /\ response.route = "callback" /\ response.outcome = "failure"
    /\ response.xkind = "none" /\ response.sans = NoAnswer

\* C4: the webhook answers {"ok": true} to every JSON object, whatever its
\* keys, a sender or follower that is no mapping included.
C4_WebhookAlwaysOk ==
    webhook.class # "none" => webhook.outcome = "ok"

\* the presence of the four keys the classification looks at
ChatKeys(payload) ==
    /\ payload.message_id # None
    /\ payload.sender.kind # "absent"
    /\ payload.content # None
FollowKey(payload) == payload.follower.kind # "absent"
SameKeys(p, q) ==
    /\ (p.message_id # None) = (q.message_id # None)
    /\ (p.sender.kind # "absent") = (q.sender.kind # "absent")
    /\ (p.content # None) = (q.content # None)
    /\ FollowKey(p) = FollowKey(q)

\* C5: the class of a payload is a total function of the presence of
\* message_id, sender, content and follower: Chat iff the first three are
\* present, Follow iff not Chat and follower is present, Unknown otherwise;
\* payloads with the same four presences (other keys, other values) get the
\* same class.
C5_Classification ==
    webhook.class # "none" =>
        /\ webhook.class \in {"Chat", "Follow", "Unknown"}
        /\ (webhook.class = "Chat") = ChatKeys(webhook.payload)
        /\ (webhook.class = "Follow") = (~ChatKeys(webhook.payload) /\ FollowKey(webhook.payload))
        /\ (webhook.class = "Unknown") = (~ChatKeys(webhook.payload) /\ ~FollowKey(webhook.payload))
        /\ \A q \in Payloads : SameKeys(webhook.payload, q) => classify(q) = webhook.class

\* a payload with some chat keys, a follower and one more key was a Follow
C5_Witness ==
    /\ webhook.class = "Follow"
    /\ webhook.payload.message_id # None /\ webhook.payload.content = None
    /\ webhook.payload.foo # None

\* C6: a payload with message_id, sender, content and follower is a Chat:
\* the chat handler runs for it and the follow handler does not (no follow
\* snapshot is written for it).
C6_ChatPrecedence ==
    [][webhook'.class # "none"
       /\ ChatKeys(webhook'.payload) /\ FollowKey(webhook'.payload) =>
            /\ webhook'.class = "Chat"
            /\ webhook'.handler = "handle_chat_message"
            /\ files'[LAST_FOLLOW] = files[LAST_FOLLOW]]_vars

\* a payload with the four keys went to the chat handler, which logged the sender
C6_Witness ==
    /\ ChatKeys(webhook.payload) /\ FollowKey(webhook.payload)
    /\ webhook.handler = "handle_chat_message"
    /\ webhook.user = "alice" /\ webhook.outcome = "ok"
    /\ files[LAST_CHAT].kind = "json" /\ files[LAST_FOLLOW].kind = "absent"

\* C7: when the exchange succeeded and do_subscribe returned a status >= 400,
\* /callback answers partial success and leaves the cache as it is, with a
\* token in it; from then on (until the process ends) the cache holds a token
\* and a /subscribe or /subscribe-ui request reads it and goes on to
\* do_subscribe with it, without a new login.
C7_PartialSuccess ==
    /\ [](/\ response.route = "callback" /\ response.sans.kind = "http"
          /\ ~do_subscribe(response.access_token, response.sans).raised
          /\ response.sans.status >= 400
          => /\ response.outcome = "partial_success"
             /\ partial_seen
             /\ Truthy(TOKENS.access_token))
    /\ [](partial_seen => Truthy(TOKENS.access_token))
    /\ [][\A t \in Threads :
            /\ StepOf(t, "callback", "subscribe") => TOKENS' = TOKENS
            /\ (StepOf(t, "subscribe", "read") \/ StepOf(t, "subscribe_ui", "read"))
               /\ partial_seen =>
                    /\ th'[t].pc = "subscribe"
                    /\ th'[t].access_token = TOKENS.access_token]_vars

\* after a partial success, /subscribe called the upstream with the cached token
C7_Witness ==
    /\ partial_seen
    /\ response.route = "subscribe" /\ response.outcome = "result_json"
    /\ response.sans.kind = "http"
    /\ response.access_token = TOKENS.access_token
    /\ issued = 1

\* C8: the exchange raises whenever the upstream answers with a status >= 400
\* or does not answer (network failure); /callback then answers with the
\* failure response, writes no file, leaves the cache as it is and makes no
\* subscription call.
C8_ExchangeFailure ==
    /\ [](\A v \in Verifiers : \A ans \in ExchangeAnswers(v) :
            (ans.kind = "netfail" \/ ans.status >= 400) =>
                exchange_code_for_token(ans).raised \in {"RequestException", "HTTPError"})
    /\ [][\A t \in Threads :
            /\ StepOf(t, "callback", "exchange")
            /\ (After(t).xkind = "netfail" \/ After(t).xstatus >= 400)
            => /\ th'[t].pc = "idle"
               /\ response'.route = "callback" /\ response'.pc = "done"
               /\ response'.outcome = "failure"
               /\ response'.sans = NoAnswer
               /\ UNCHANGED <<TOKENS, files>>]_vars

\* an exchange answered with an error status: the failure response, and
\* neither a token file nor a cached token
C8_Witness ==
    /\ response.route = "callback" /\ response.outcome = "failure"
    /\ response.xkind = "http" /\ response.xstatus = 400
    /\ files[TOKEN_FILE].kind = "absent" /\ ~Truthy(TOKENS.access_token)

\* C9: do_subscribe does not raise on an HTTP answer: for every status, those
\* >= 400 included, it returns a result with that status_code and the body.
C9_SubscribeReturnsStatus ==
    response.sans.kind = "http" =>
        LET s == do_subscribe(response.access_token, response.sans)
        IN /\ ~s.raised
           /\ s.result.status_code = response.sans.status
           /\ s.result.text = response.sans.body
           /\ response.outcome # "error500"

\* C10: a subscription that fails in /callback, by an error status or by a
\* network failure, does not fail the callback: it answers partial success
\* and the failure, as a result with a status code, is in
\* last_subscribe_response.json.
C10_SubscribeFailureNonFatal ==
    /\ response.route = "callback"
    /\ (response.sans.kind = "netfail"
        \/ (response.sans.kind = "http" /\ response.sans.status >= 400))
    => /\ response.outcome = "partial_success"
       /\ files[LAST_SUBSCRIBE].kind = "json"
       /\ files[LAST_SUBSCRIBE].data.status_code >= 400

\* C11: when the token endpoint answers with success and a JSON body without
\* access_token, /callback answers with an error outcome of its own (the
\* failure response) and does not crash; it never leaves the token file
\* holding a body without access_token while the cache holds a token.
C11_MissingAccessTokenSurfaced ==
    /\ (/\ response.route = "callback" /\ response.xkind = "http"
        /\ response.xstatus < 400 /\ response.xbody = "dict"
        /\ ~Truthy(response.access_token))
       => response.outcome = "failure"
    /\ ~(/\ files[TOKEN_FILE].kind = "json"
         /\ ~Has(files[TOKEN_FILE].data, "access_token")
         /\ Truthy(TOKENS.access_token))

\* C12: while the process runs the cached access_token is never deleted: a
\* cache that holds a token holds one after every step; the cache changes
\* only at the cache write of a /callback whose exchange succeeded, to the
\* access_token of that exchange, and that exchange has replaced the whole
\* token file by its token response.
C12_TokenNeverDeleted ==
    [][response'.route # "restart" =>
        /\ Truthy(TOKENS.access_token) => Truthy(TOKENS'.access_token)
        /\ TOKENS' # TOKENS =>
               \E t \in Threads :
                   /\ StepOf(t, "callback", "cache")
                   /\ th[t].xkind = "http" /\ th[t].xstatus < 400 /\ th[t].xbody = "dict"
                   /\ Truthy(th[t].access_token)
                   /\ TOKENS' = [access_token |-> th[t].access_token]
        /\ \A t \in Threads :
               /\ StepOf(t, "callback", "cache") =>
                      TOKENS'.access_token = th[t].access_token
               /\ StepOf(t, "callback", "exchange") /\ th'[t].pc = "cache" =>
                      files'[TOKEN_FILE] = JsonFile([access_token |-> th'[t].access_token])]_vars

\* the cache went from the token of one login to the token of a later one:
\* the callback of the first ends after the second wrote the cache
C12_Witness ==
    /\ response.route = "callback" /\ response.outcome = "partial_success"
    /\ response.access_token = TokenNames[1]
    /\ TOKENS.access_token = TokenNames[2]

\* the state the module-level code leaves: the first state of a process
AfterStartup ==
    \/ response.route = "restart"
    \/ response = NoResponse /\ \A t \in Threads : th[t] = Idle

\* C13: at startup, with no token file load_token returns None without
\* raising and the process runs with an empty cache; with a token file that
\* is not JSON the parse error propagates and no request is ever served;
\* with a JSON token file that has access_token the cache holds that value.
C13_TokenLoad ==
    /\ [](AfterStartup =>
            /\ files[TOKEN_FILE].kind = "absent" =>
                   /\ ~load_token(files).raised /\ load_token(files).saved = None
                   /\ running /\ TOKENS = NoToken
            /\ files[TOKEN_FILE].kind = "corrupt" =>
                   load_token(files).raised /\ ~running
            /\ files[TOKEN_FILE].kind = "json" =>
                   /\ running
                   /\ TOKENS.access_token = files[TOKEN_FILE].data.access_token)
    /\ [][running]_vars

\* a process restarted on the token file a login wrote
C13_Witness ==
    /\ response.route = "restart"
    /\ files[TOKEN_FILE].kind = "json"
    /\ TOKENS.access_token = TokenNames[1]

\* C14: a /subscribe (and a /subscribe-ui) request that finds no access_token
\* in the cache ends there: the error result for a JSON client, the failure
\* redirect for an HTML client (always, for /subscribe-ui); no upstream call
\* is made, and the last-subscription-response file, every other file, the
\* cache and the login state store are unchanged.
C14_SubscribeWithoutToken ==
    [][\A t \in Threads :
        /\ StepOf(t, "subscribe", "read") \/ StepOf(t, "subscribe_ui", "read")
        /\ ~Truthy(TOKENS.access_token)
        => /\ th'[t].pc = "idle"
           /\ response'.pc = "done" /\ response'.route = th[t].route
           /\ response'.outcome =
                 (IF th[t].route = "subscribe" /\ ~th[t].html THEN "error_json" ELSE "failure")
           /\ response'.sans = NoAnswer
           /\ UNCHANGED <<files, TOKENS, PKCE_STORE>>]_vars

\* a JSON client's /subscribe got the error result, with a login pending
C14_Witness ==
    /\ response.route = "subscribe" /\ response.outcome = "error_json"
    /\ ~response.html
    /\ files[LAST_SUBSCRIBE].kind = "absent"
    /\ PKCE_STORE[StateNames[1]] # None

\* C15: the pop of a state with no entry in the store (one never inserted)
\* returns None and leaves the store as it is: no entry appears, and the
\* entries of other states stay.
C15_PopNeverInserted ==
    /\ [](\A s \in States : PKCE_STORE[s] = None =>
            /\ pop_verifier(PKCE_STORE, s) = None
            /\ pop_store(PKCE_STORE, s) = PKCE_STORE)
    /\ [][\A t \in Threads :
            StepOf(t, "callback", "pop") /\ PKCE_STORE[th[t].state] = None =>
                /\ After(t).verifier = None
                /\ PKCE_STORE' = PKCE_STORE]_vars

\* a state no login has issued was popped while the entry of the first login
\* was in the store, and that entry is still there
C15_Witness ==
    /\ response.route = "callback" /\ response.outcome = "failure"
    /\ response.state = StateNames[2] /\ issued = 1
    /\ PKCE_STORE[StateNames[1]] = VerifierNames[1]

\* the requests in flight and the one just answered
Requests == {response} \cup {th[t] : t \in Threads}

\* C16: the authorize URL of a login carries the login's state and the S256
\* challenge of the login's verifier, and no parameter of it is a verifier;
\* a verifier is in no response, no bearer token and no file: it leaves the
\* process only as code_verifier of the token exchange of a /callback.
C16_VerifierSecrecy ==
    /\ response.route = "login" =>
           /\ response.state = StateNames[issued]
           /\ PKCE_STORE[response.state] = VerifierNames[issued]
           /\ response.auth_url.state = response.state
           /\ response.auth_url.code_challenge = ChallengeNames[issued]
           /\ response.auth_url.code_challenge_method = "S256"
    /\ \A r \in Requests :
           /\ \A k \in DOMAIN r.auth_url : r.auth_url[k] \notin Verifiers
           /\ r.access_token \notin Verifiers
           /\ r.code_verifier # None =>
                  r.route = "callback" /\ r.xkind # "none"
    /\ files[TOKEN_FILE].data.access_token \notin Verifiers
    /\ TOKENS.access_token \notin Verifiers

\* the second login got its URL
C16_Witness ==
    /\ response.route = "login" /\ issued = 2
    /\ response.auth_url.state = StateNames[2]
    /\ response.auth_url.code_challenge = ChallengeNames[2]

\* C17: every subscription attempt (of /callback, /subscribe, /subscribe-ui)
\* writes its result to the last-subscription-response file, and every
\* successful exchange writes the token response to the token file, each
\* replacing what was there: when an attempt has just ended the file holds
\* its result, and when an exchange has just ended the request on a token
\* response without access_token the token file holds that response.
C17_ResultsPersisted ==
    /\ response.sans.kind # "none" =>
           /\ files[LAST_SUBSCRIBE].kind = "json"
           /\ response.sans.kind = "http" =>
                  /\ files[LAST_SUBSCRIBE].data.status_code = response.sans.status
                  /\ files[LAST_SUBSCRIBE].data.text = response.sans.body
    /\ (/\ response.route = "callback" /\ response.xbody = "dict"
        /\ response.sans.kind = "none")
       => files[TOKEN_FILE] = JsonFile(NoToken)

(* ------------------ the teaching twin, app_EXTREMECOMMENTS.py ----------- *)
\* The twin's functions and routes, translated from its own text. They work
\* on the same state, requests, upstream answers and payloads.
\* twin: save_json(data, filename): open(..., "w"), json.dump
twin_save_json(fs, data, filename) == [fs EXCEPT ![filename] = JsonFile(data)]

\* twin: load_token(): json.load, except FileNotFoundError: return None
twin_load_token(fs) ==
    IF fs[TOKEN_FILE].kind = "absent" THEN [raised |-> FALSE, saved |-> None, data |-> NoToken]
    ELSE IF fs[TOKEN_FILE].kind = "corrupt" THEN [raised |-> TRUE, saved |-> None, data |-> NoToken]
    ELSE [raised |-> FALSE, saved |-> "dict", data |-> fs[TOKEN_FILE].data]

\* twin: the cache the module-level code leaves
twin_startup_TOKENS(fs) ==
    LET l == twin_load_token(fs) IN
    IF l.saved # None /\ Has(l.data, "access_token")
    THEN [access_token |-> l.data.access_token]
    ELSE [access_token |-> None]

\* twin: pkce_challenge_s256(verifier)
twin_pkce_challenge_s256(verifier) ==
    ChallengeNames[CHOOSE i \in 1..NumLogins : VerifierNames[i] = verifier]

\* twin: the dict q of login_page, urlencoded into auth_url
twin_build_auth_url(state, challenge) ==
    [response_type |-> "code", client_id |-> "CLIENT_ID", redirect_uri |-> "REDIRECT_URI",
     scope |-> "events:subscribe", code_challenge |-> challenge,
     code_challenge_method |-> "S256", state |-> state]

\* twin: the exchange of callback: requests.post, r.raise_for_status(), r.json()
twin_exchange_code_for_token(ans) ==
    IF ans.kind = "netfail" THEN [raised |-> "RequestException", token |-> NoToken]
    ELSE IF raise_for_status(ans.status) THEN [raised |-> "HTTPError", token |-> NoToken]
    ELSE IF ~ans.valid THEN [raised |-> "JSONDecodeError", token |-> NoToken]
    ELSE [raised |-> None, token |-> ans.token]

\* twin: do_subscribe(access_token)
twin_do_subscribe(access_token, ans) ==
    IF ans.kind = "netfail" THEN [raised |-> TRUE, result |-> NoSub]
    ELSE IF ans.json_ctype /\ json_raises(ans.body) THEN [raised |-> TRUE, result |-> NoSub]
    ELSE [raised |-> FALSE,
          result |-> [status_code |-> ans.status, text |-> ans.body,
                      json |-> IF ans.json_ctype THEN ans.body ELSE None]]

\* the twin with a threshold that takes the 4xx statuses for a success
twin_sub_failed_5xx(sub) == sub.status_code >= 500

\* twin: sub.get("status_code", 0) >= 400
twin_sub_failed(sub) == sub.status_code >= 400

\* twin: payload.get(key, {}).get("username", "unknown")
twin_get_username(payload, key) ==
    LET v == payload[key] IN
    IF v.kind = "other" THEN [raised |-> TRUE, value |-> None]
    ELSE IF v.kind = "absent" \/ v.username = None THEN [raised |-> FALSE, value |-> "unknown"]
    ELSE [raised |-> FALSE, value |-> v.username]

\* twin: handle_chat_message(payload)
twin_handle_chat_message(payload) ==
    LET sender == twin_get_username(payload, "sender")
        content == IF In(payload, "content") THEN payload.content ELSE ""
    IN [raised |-> sender.raised, user |-> sender.value, content |-> content]

\* twin: handle_follow(payload)
twin_handle_follow(payload) ==
    LET user == twin_get_username(payload, "follower")
    IN [raised |-> user.raised, user |-> user.value, content |-> ""]

\* twin: the if / elif / fall-through of kick_webhook
twin_classify(payload) ==
    IF In(payload, "message_id") /\ In(payload, "sender") /\ In(payload, "content") THEN "Chat"
    ELSE IF In(payload, "follower") THEN "Follow"
    ELSE "Unknown"

\* twin: the module-level code runs anew
twin_Restart ==
    /\ running
    /\ PKCE_STORE' = [s \in States |-> None]
    /\ running' = ~twin_load_token(files).raised
    /\ TOKENS' = IF running' THEN twin_startup_TOKENS(files) ELSE NoToken
    /\ th' = [t \in Threads |-> Idle]
    /\ response' = [NoResponse EXCEPT !.route = "restart"]
    /\ partial_seen' = FALSE
    /\ yields' = [s \in States |-> 0]
    /\ UNCHANGED <<files, DEBUG_PAYLOADS, webhook, issued>>

\* twin: login_page
twin_login_page ==
    /\ running
    /\ issued < NumLogins
    /\ LET state == StateNames[issued + 1]
           verifier == VerifierNames[issued + 1]
       IN /\ PKCE_STORE' = put_verifier(PKCE_STORE, state, verifier)
          /\ yields' = [yields EXCEPT ![state] = 0]
          /\ response' = [NoResponse EXCEPT !.route = "login", !.pc = "done", !.state = state,
                               !.auth_url = twin_build_auth_url(state, twin_pkce_challenge_s256(verifier))]
    /\ issued' = issued + 1
    /\ UNCHANGED <<TOKENS, files, th, running, DEBUG_PAYLOADS, webhook, partial_seen>>

\* twin: GET /callback reaches a worker thread
twin_callback_request(t, state) ==
    /\ running
    /\ Free(t)
    /\ Continue(t, [Idle EXCEPT !.route = "callback", !.pc = "pop", !.state = state])
    /\ UNCHANGED <<PKCE_STORE, TOKENS, files, running, DEBUG_PAYLOADS, webhook, issued, partial_seen, yields>>

\* twin: verifier = PKCE_STORE.pop(state, None); if not verifier: redirect to /failure
twin_callback_pop(t) ==
    /\ th[t].route = "callback" /\ th[t].pc = "pop"
    /\ LET state == th[t].state
           verifier == pop_verifier(PKCE_STORE, state)
       IN /\ PKCE_STORE' = pop_store(PKCE_STORE, state)
          /\ yields' = [yields EXCEPT ![state] = IF verifier # None THEN @ + 1 ELSE @]
          /\ IF ~Truthy(verifier)
             THEN Finish(t, th[t], "failure")
             ELSE Continue(t, [th[t] EXCEPT !.verifier = verifier, !.pc = "exchange"])
    /\ UNCHANGED <<TOKENS, files, running, DEBUG_PAYLOADS, webhook, issued, partial_seen>>

\* twin: the exchange in try/except, token = r.json(), save_json, token["access_token"]
twin_callback_exchange(t) ==
    /\ th[t].route = "callback" /\ th[t].pc = "exchange"
    /\ \E ans \in ExchangeAnswers(th[t].verifier) :
        LET x == twin_exchange_code_for_token(ans)
            r == [th[t] EXCEPT !.xkind = ans.kind, !.xstatus = ans.status,
                               !.xbody = parsed_body(x),
                               !.code_verifier = th[t].verifier]
        IN IF x.raised \in {"RequestException", "HTTPError"}
           THEN /\ Finish(t, r, "failure")
                /\ UNCHANGED files
           ELSE IF x.raised = "JSONDecodeError"
           THEN /\ Finish(t, r, "error500")
                /\ UNCHANGED files
           ELSE /\ files' = twin_save_json(files, x.token, TOKEN_FILE)
                /\ IF Has(x.token, "access_token")
                   THEN Continue(t, [r EXCEPT !.verifier = None, !.pc = "cache",
                                              !.access_token = x.token.access_token])
                   ELSE Finish(t, r, "error500")
    /\ UNCHANGED <<PKCE_STORE, TOKENS, running, DEBUG_PAYLOADS, webhook, issued, partial_seen, yields>>

\* twin: TOKENS["access_token"] = access_token
twin_callback_cache(t) ==
    /\ th[t].route = "callback" /\ th[t].pc = "cache"
    /\ TOKENS' = [TOKENS EXCEPT !.access_token = th[t].access_token]
    /\ Continue(t, [th[t] EXCEPT !.pc = "subscribe"])
    /\ UNCHANGED <<PKCE_STORE, files, running, DEBUG_PAYLOADS, webhook, issued, partial_seen, yields>>

\* twin: sub = do_subscribe(access_token); save_json; the redirect by the threshold
twin_callback_subscribe(t, ans) ==
    /\ th[t].route = "callback" /\ th[t].pc = "subscribe"
    /\ LET s == twin_do_subscribe(th[t].access_token, ans)
           r == [th[t] EXCEPT !.sans = ans]
       IN IF s.raised
          THEN /\ Finish(t, r, "error500")
               /\ UNCHANGED <<files, partial_seen>>
          ELSE /\ files' = twin_save_json(files, s.result, LAST_SUBSCRIBE)
               /\ Finish(t, r, IF twin_sub_failed(s.result) THEN "partial_success" ELSE "success")
               /\ partial_seen' = (partial_seen \/ twin_sub_failed(s.result))
    /\ UNCHANGED <<PKCE_STORE, TOKENS, running, DEBUG_PAYLOADS, webhook, issued, yields>>

\* twin: POST /subscribe reaches a worker thread
twin_subscribe_request(t, html) ==
    /\ running
    /\ Free(t)
    /\ Continue(t, [Idle EXCEPT !.route = "subscribe", !.pc = "read", !.html = html])
    /\ UNCHANGED <<PKCE_STORE, TOKENS, files, running, DEBUG_PAYLOADS, webhook, issued, partial_seen, yields>>

\* twin: access_token = TOKENS.get("access_token"); the no-token answers
twin_subscribe_read(t) ==
    /\ th[t].route = "subscribe" /\ th[t].pc = "read"
    /\ LET access_token == TOKENS.access_token
       IN IF ~Truthy(access_token)
          THEN Finish(t, th[t], IF th[t].html THEN "failure" ELSE "error_json")
          ELSE Continue(t, [th[t] EXCEPT !.access_token = access_token, !.pc = "subscribe"])
    /\ UNCHANGED <<PKCE_STORE, TOKENS, files, running, DEBUG_PAYLOADS, webhook, issued, partial_seen, yields>>

\* twin: result = do_subscribe(access_token); save_json; the answers
twin_subscribe_call(t, ans) ==
    /\ th[t].route = "subscribe" /\ th[t].pc = "subscribe"
    /\ LET s == twin_do_subscribe(th[t].access_token, ans)
           r == [th[t] EXCEPT !.sans = ans]
       IN IF s.raised
          THEN /\ Finish(t, r, "error500")
               /\ UNCHANGED files
          ELSE /\ files' = twin_save_json(files, s.result, LAST_SUBSCRIBE)
               /\ IF th[t].html
                  THEN Finish(t, r, IF twin_sub_failed(s.result) THEN "partial_success" ELSE "success")
                  ELSE Finish(t, [r EXCEPT !.returned = s.result], "result_json")
    /\ UNCHANGED <<PKCE_STORE, TOKENS, running, DEBUG_PAYLOADS, webhook, issued, partial_seen, yields>>

\* twin: GET /subscribe-ui reaches a worker thread
twin_subscribe_ui_request(t) ==
    /\ running
    /\ Free(t)
    /\ Continue(t, [Idle EXCEPT !.route = "subscribe_ui", !.pc = "read"])
    /\ UNCHANGED <<PKCE_STORE, TOKENS, files, running, DEBUG_PAYLOADS, webhook, issued, partial_seen, yields>>

\* twin: access_token = TOKENS.get("access_token"); the no-token redirect
twin_subscribe_ui_read(t) ==
    /\ th[t].route = "subscribe_ui" /\ th[t].pc = "read"
    /\ LET access_token == TOKENS.access_token
       IN IF ~Truthy(access_token)
          THEN Finish(t, th[t], "failure")
          ELSE Continue(t, [th[t] EXCEPT !.access_token = access_token, !.pc = "subscribe"])
    /\ UNCHANGED <<PKCE_STORE, TOKENS, files, running, DEBUG_PAYLOADS, webhook, issued, partial_seen, yields>>

\* twin: result = do_subscribe(access_token); save_json; the redirect by the threshold
twin_subscribe_ui_call(t, ans) ==
    /\ th[t].route = "subscribe_ui" /\ th[t].pc = "subscribe"
    /\ LET s == twin_do_subscribe(th[t].access_token, ans)
           r == [th[t] EXCEPT !.sans = ans]
       IN IF s.raised
          THEN /\ Finish(t, r, "error500")
               /\ UNCHANGED files
          ELSE /\ files' = twin_save_json(files, s.result, LAST_SUBSCRIBE)
               /\ Finish(t, r, IF twin_sub_failed(s.result) THEN "partial_success" ELSE "success")
    /\ UNCHANGED <<PKCE_STORE, TOKENS, running, DEBUG_PAYLOADS, webhook, issued, partial_seen, yields>>

\* twin: kick_webhook(payload)
twin_kick_webhook(payload) ==
    /\ running
    /\ LET class == twin_classify(payload)
           fs1 == IF DEBUG_PAYLOADS THEN twin_save_json(files, payload, LAST_WEBHOOK_FILE) ELSE files
           h == IF class = "Chat" THEN twin_handle_chat_message(payload)
                ELSE IF class = "Follow" THEN twin_handle_follow(payload)
                ELSE [raised |-> FALSE, user |-> None, content |-> ""]
           snapshot == IF class = "Chat" THEN LAST_CHAT ELSE LAST_FOLLOW
       IN /\ files' = IF class # "Unknown" /\ ~h.raised /\ DEBUG_PAYLOADS
                      THEN twin_save_json(fs1, payload, snapshot)
                      ELSE fs1
          /\ webhook' = [payload |-> payload, class |-> class,
                         handler |-> IF class = "Chat" THEN "handle_chat_message"
                                     ELSE IF class = "Follow" THEN "handle_follow"
                                     ELSE "none",
                         user |-> h.user, content |-> h.content,
                         outcome |-> IF h.raised THEN "error500" ELSE "ok"]
    /\ UNCHANGED <<PKCE_STORE, TOKENS, th, running, response, DEBUG_PAYLOADS, issued,
                   partial_seen, yields>>

\* twin: the requests the twin serves on worker threads
twin_Next ==
    \/ twin_login_page
    \/ twin_Restart
    \/ \E t \in Threads, s \in States : twin_callback_request(t, s)
    \/ \E t \in Threads : twin_callback_pop(t)
    \/ \E t \in Threads : twin_callback_exchange(t)
    \/ \E t \in Threads : twin_callback_cache(t)
    \/ \E t \in Threads, a \in SubscribeAnswers : twin_callback_subscribe(t, a)
    \/ \E t \in Threads, html \in BOOLEAN : twin_subscribe_request(t, html)
    \/ \E t \in Threads : twin_subscribe_read(t)
    \/ \E t \in Threads, a \in SubscribeAnswers : twin_subscribe_call(t, a)
    \/ \E t \in Threads : twin_subscribe_ui_request(t)
    \/ \E t \in Threads : twin_subscribe_ui_read(t)
    \/ \E t \in Threads, a \in SubscribeAnswers : twin_subscribe_ui_call(t, a)

\* twin: the webhook deliveries the twin serves
twin_WebhookNext == \E payload \in Payloads : twin_kick_webhook(payload)

\* no request but webhook deliveries has been served yet
Quiet == issued = 0 /\ response = NoResponse /\ \A t \in Threads : th[t] = Idle

\* one request at a time: a sequence of requests
OneInFlight == \A t \in Threads : t # 1 => th[t] = Idle

\* Either program serves the traffic, a sequence of requests. The webhook
\* route shares no state with the other routes (it writes its own three
\* files and is the only reader of DEBUG_PAYLOADS), so a run is either of
\* webhook deliveries or of the other requests.
TwinInit == Init \/ WebhookInit

TwinSpecNext ==
    \/ webhook = NoWebhook /\ Next /\ OneInFlight'
    \/ webhook = NoWebhook /\ twin_Next /\ OneInFlight'
    \/ Quiet /\ WebhookNext
    \/ Quiet /\ twin_WebhookNext

TwinSpec == TwinInit /\ [][TwinSpecNext]_vars

\* C18: app_EXTREMECOMMENTS.py behaves exactly like app.py: the startup code
\* of both leaves the same cache, and from every state, for every request,
\* upstream answer and payload, a step of one program (the response, the
\* upstream call, the login state store, the cache, the files after it) is a
\* step of the other (a delivery leaves its payload in webhook, which no
\* other step writes, so the delivery a step can be is the one of that
\* payload).
C18_TwinEquivalence ==
    /\ [](AfterStartup =>
            /\ load_token(files) = twin_load_token(files)
            /\ running = ~twin_load_token(files).raised
            /\ running => TOKENS = startup_TOKENS(files) /\ TOKENS = twin_startup_TOKENS(files))
    /\ [][IF webhook' # webhook
          THEN kick_webhook(webhook'.payload) <=> twin_kick_webhook(webhook'.payload)
          ELSE Next <=> twin_Next]_vars

\* a login, its callback with a subscription refused by the upstream, and a
\* retry by /subscribe-ui that succeeded: each step a step of both programs
C18_Witness ==
    /\ response.route = "subscribe_ui" /\ response.outcome = "success"
    /\ partial_seen
    /\ response.access_token = TokenNames[1]

\* C19: a webhook payload is persisted in debug mode only. With the flag off
\* a delivery writes no file; with it on the raw payload replaces the
\* last-webhook file, a Chat payload also replaces the chat snapshot, a
\* Follow payload the follow snapshot, and no other snapshot is written (none
\* for an Unknown payload).
C19_DebugPersistence ==
    [][LET payload == webhook'.payload
           class == webhook'.class
       IN IF ~DEBUG_PAYLOADS
          THEN files' = files
          ELSE /\ files'[LAST_WEBHOOK_FILE] = JsonFile(payload)
               /\ files'[LAST_CHAT] =
                     (IF class = "Chat" THEN JsonFile(payload) ELSE files[LAST_CHAT])
               /\ files'[LAST_FOLLOW] =
                     (IF class = "Follow" THEN JsonFile(payload) ELSE files[LAST_FOLLOW])
               /\ files'[TOKEN_FILE] = files[TOKEN_FILE]
               /\ files'[LAST_SUBSCRIBE] = files[LAST_SUBSCRIBE]]_vars

\* the steps of the handler thread t runs, to its return
ThreadStep(t) ==
    \/ callback_pop(t)
    \/ callback_exchange(t)
    \/ callback_cache(t)
    \/ \E a \in SubscribeAnswers : callback_subscribe(t, a)
    \/ subscribe_read(t)
    \/ \E a \in SubscribeAnswers : subscribe_call(t, a)
    \/ subscribe_ui_read(t)
    \/ \E a \in SubscribeAnswers : subscribe_ui_call(t, a)

\* a worker thread that has a request keeps running its handler; both
\* requests.post calls carry timeout=20, so the wait for the upstream ends
\* with an answer or with the timeout exception
LiveSpec == Spec /\ \A t \in Threads : WF_vars(ThreadStep(t))

\* C20: every /callback, /subscribe and /subscribe-ui request ends: its
\* thread comes back to the pool, and unless the process was restarted
\* under it, with a response sent for the request. An upstream that does
\* not answer ends the wait by the timeout.
C20_RequestsReturn ==
    /\ \A t \in Threads : (th[t].pc # "idle") ~> (th[t].pc = "idle")
    /\ [][\A t \in Threads :
            th[t].pc # "idle" /\ th'[t].pc = "idle" /\ response'.route # "restart" =>
                /\ response'.pc = "done" /\ response'.route = th[t].route
                /\ response'.outcome # "none"]_vars

\* a callback whose exchange got no answer was cut off and answered
C20_Witness ==
    /\ response.route = "callback" /\ response.pc = "done"
    /\ response.xkind = "netfail" /\ response.outcome = "failure"

\* the verifier the login that issued state s stored under it
VerifierOf(s) == VerifierNames[CHOOSE i \in 1..NumLogins : StateNames[i] = s]

\* the verifier a callback got from its pop: held for the exchange, then sent
Holds(r) == IF r.verifier # None THEN r.verifier ELSE r.code_verifier

\* C21: the pop is atomic under concurrent handling. Of two /callback
\* requests with the same issued state that run at once, at most one gets
\* the verifier and makes a token exchange: no two requests ever hold the
\* same verifier; a pop made while the other request stands at its own pop
\* of that state leaves no entry for it; and the pop of a request whose
\* state's verifier another request in flight holds ends with the
\* invalid-state failure, with no exchange.
C21_ConcurrentPop ==
    /\ [](\A t, u \in Threads :
            t # u /\ Holds(th[t]) # None => Holds(th[u]) # Holds(th[t]))
    /\ [](\A t \in Threads :
            Holds(response) # None => Holds(th[t]) # Holds(response))
    /\ [][\A t, u \in Threads :
            /\ t # u /\ StepOf(t, "callback", "pop")
            /\ th[u].route = "callback"
            => /\ (th[u].pc = "pop" /\ th[u].state = th[t].state) =>
                      /\ PKCE_STORE'[th[u].state] = None
                      /\ UNCHANGED th[u]
               /\ Holds(th[u]) = VerifierOf(th[t].state) =>
                      /\ th'[t].pc = "idle"
                      /\ response'.route = "callback" /\ response'.outcome = "failure"
                      /\ response'.state = th[t].state
                      /\ response'.xkind = "none" /\ Holds(response') = None]_vars

\* a callback with the first login's state was refused while another callback,
\* still in flight, holds that login's verifier for its exchange
C21_Witness ==
    /\ response.route = "callback" /\ response.outcome = "failure"
    /\ response.state = StateNames[1] /\ response.xkind = "none"
    /\ \E u \in Threads :
           /\ th[u].route = "callback" /\ th[u].pc = "exchange"
           /\ th[u].verifier = VerifierNames[1]

\* C22: a /callback that fails at its pop (unknown or expired state) or at
\* its token exchange (the request ends there, without a token) corrupts no
\* data: the step that ends it leaves the token cache, the token file and
\* the last-subscription-response file as they were, so a token cached
\* earlier is still the one in the cache and in the file.
C22_FailedCallbackFrame ==
    [][\A t \in Threads :
        /\ StepOf(t, "callback", "pop") \/ StepOf(t, "callback", "exchange")
        /\ th'[t].pc = "idle"
        => /\ response'.route = "callback" /\ response'.outcome # "success"
           /\ TOKENS' = TOKENS
           /\ files'[TOKEN_FILE] = files[TOKEN_FILE]
           /\ files'[LAST_SUBSCRIBE] = files[LAST_SUBSCRIBE]]_vars

\* the routes that answer a subscription attempt with a redirect
Redirecting(r) ==
    r.route \in {"callback", "subscribe_ui"} \/ (r.route = "subscribe" /\ r.html)

\* C23: once the exchange has succeeded, the outcome of /callback is decided
\* by the status of the subscription answer alone: success iff it is < 400,
\* partial success iff it is >= 400; the same holds for /subscribe-ui and for
\* an HTML client's /subscribe, and a JSON client's /subscribe gets the
\* result (status_code, text, json) as do_subscribe built it, for every status.
C23_ThresholdDecides ==
    response.sans.kind = "http" =>
        /\ Redirecting(response) =>
               /\ (response.outcome = "success") = (response.sans.status < 400)
               /\ (response.outcome = "partial_success") = (response.sans.status >= 400)
        /\ ~Redirecting(response) =>
               /\ response.outcome = "result_json"
               /\ response.returned.status_code = response.sans.status
               /\ response.returned.text = response.sans.body
               /\ response.returned = do_subscribe(response.access_token, response.sans).result

\* the username under a key of the payload, "unknown" when it is not there
UsernameOr(v) == IF v.username # None THEN v.username ELSE "unknown"

\* C24: the chat handler reports sender.username, "unknown" when the payload
\* has no sender or the sender no username, and content, "" when absent; the
\* follow handler reports follower.username with the same default; neither
\* handler fails for a payload dispatched to it.
C24_HandlerDefaults ==
    /\ webhook.handler = "handle_chat_message" =>
           /\ webhook.outcome = "ok"
           /\ webhook.user = UsernameOr(webhook.payload.sender)
           /\ webhook.content =
                 (IF webhook.payload.content # None THEN webhook.payload.content ELSE "")
    /\ webhook.handler = "handle_follow" =>
           /\ webhook.outcome = "ok"
           /\ webhook.user = UsernameOr(webhook.payload.follower)

\* C25: one /callback takes its steps in this order: the pop of the
\* verifier, the token exchange (which writes the token response to the
\* token file), the cache write, the subscription call, whose result is
\* written in the same step. Each step finds the earlier ones done and the
\* later ones not, and the subscription call carries the access_token of the
\* callback's own exchange, whatever the cache holds by then.
C25_CallbackOrder ==
    /\ [](\A t \in Threads : th[t].route = "callback" =>
            /\ th[t].pc \in {"pop", "exchange", "cache", "subscribe"}
            /\ th[t].pc = "pop" =>
                   th[t].verifier = None /\ th[t].xkind = "none" /\ th[t].sans = NoAnswer
            /\ th[t].pc = "exchange" =>
                   th[t].verifier # None /\ th[t].xkind = "none" /\ th[t].sans = NoAnswer
            /\ th[t].pc \in {"cache", "subscribe"} =>
                   /\ th[t].xkind = "http" /\ th[t].xstatus < 400
                   /\ th[t].access_token = TokenFor(th[t].code_verifier)
                   /\ th[t].sans = NoAnswer
            /\ th[t].pc = "subscribe" => Truthy(TOKENS.access_token))
    /\ [][\A t \in Threads :
            /\ StepOf(t, "callback", "pop") => After(t).pc \in {"exchange", "done"}
            /\ StepOf(t, "callback", "exchange") =>
                   /\ After(t).pc \in {"cache", "done"}
                   /\ After(t).code_verifier = th[t].verifier
                   /\ After(t).pc = "cache" =>
                          /\ files'[TOKEN_FILE] = JsonFile([access_token |-> After(t).access_token])
                          /\ UNCHANGED TOKENS
            /\ StepOf(t, "callback", "cache") =>
                   /\ After(t).pc = "subscribe"
                   /\ TOKENS'.access_token = th[t].access_token
                   /\ UNCHANGED files
            /\ StepOf(t, "callback", "subscribe") =>
                   /\ After(t).pc = "done" /\ After(t).sans # NoAnswer
                   /\ After(t).access_token = th[t].access_token
                   /\ After(t).access_token = TokenFor(After(t).code_verifier)
                   /\ ~do_subscribe(th[t].access_token, After(t).sans).raised =>
                          files'[LAST_SUBSCRIBE] =
                              JsonFile(do_subscribe(th[t].access_token, After(t).sans).result)
                   /\ files'[TOKEN_FILE] = files[TOKEN_FILE]
                   /\ UNCHANGED TOKENS]_vars

\* the callback of the first login subscribed with its own token and wrote the
\* result after the callback of the second login had replaced the cached token
C25_Witness ==
    /\ response.route = "callback" /\ response.outcome = "success"
    /\ response.code_verifier = VerifierNames[1]
    /\ response.access_token = TokenNames[1]
    /\ TOKENS.access_token = TokenNames[2]
    /\ files[LAST_SUBSCRIBE].kind = "json" /\ files[LAST_SUBSCRIBE].data.status_code = 200

\* C26: the code_verifier a /callback with state s sends in its token
\* exchange is the verifier the login that issued s generated and stored,
\* the one whose S256 challenge that login put in its authorize URL next to
\* s; with several logins pending, no callback holds or sends the verifier of
\* another login.
C26_VerifierBinding ==
    /\ response.route = "login" =>
           /\ PKCE_STORE[response.state] = VerifierOf(response.state)
           /\ response.auth_url.state = response.state
           /\ response.auth_url.code_challenge =
                  pkce_challenge_s256(VerifierOf(response.state))
    /\ \A s \in States : PKCE_STORE[s] # None => PKCE_STORE[s] = VerifierOf(s)
    /\ \A r \in Requests : r.route = "callback" =>
           /\ r.verifier # None => r.verifier = VerifierOf(r.state)
           /\ r.code_verifier # None => r.code_verifier = VerifierOf(r.state)
           /\ r.xkind # "none" => r.code_verifier = VerifierOf(r.state)

\* with the first login still pending, the callback of the second login sent
\* the second login's verifier
C26_Witness ==
    /\ response.route = "callback" /\ response.xkind = "http"
    /\ response.state = StateNames[2]
    /\ response.code_verifier = VerifierNames[2]
    /\ PKCE_STORE[StateNames[1]] = VerifierNames[1]

\* C27: whenever no /callback is in progress and an exchange has succeeded
\* (the cache holds a token and the token file an access_token), the
\* access_token in the cache is the one in the token file, after every
\* interleaving of concurrent callbacks.
C27_CacheMatchesFile ==
    /\ \A t \in Threads : th[t].route # "callback"
    /\ Truthy(TOKENS.access_token)
    /\ files[TOKEN_FILE].kind = "json" /\ Has(files[TOKEN_FILE].data, "access_token")
    => TOKENS.access_token = files[TOKEN_FILE].data.access_token

\* C28: a restart loses the login state store and keeps the token. The
\* restarted process has an empty store, so every state issued before fails
\* at /callback; and when the cache held a token, with no /callback in
\* progress, the restarted process holds the same access_token, loaded from
\* the token file, so /subscribe goes on without a new login.
C28_RestartKeepsToken ==
    [][response'.route = "restart" =>
        /\ \A s \in States : PKCE_STORE'[s] = None
        /\ (/\ Truthy(TOKENS.access_token)
            /\ \A t \in Threads : th[t].route # "callback")
           => /\ running'
              /\ TOKENS'.access_token = TOKENS.access_token
              /\ TOKENS'.access_token = files[TOKEN_FILE].data.access_token]_vars

\* C29: the verifier is consumed before the exchange is tried. When a
\* /callback makes its exchange the store has no entry under its state, and
\* the exchange, failed or not, leaves the store as it is; so after a failed
\* exchange the state is gone, and a later /callback with that state ends at
\* its pop with the invalid-state failure and no upstream call. Only a new
\* login puts an entry in the store, under a new state.
C29_ConsumedBeforeExchange ==
    /\ [](\A r \in Requests :
            r.route = "callback" /\ (r.verifier # None \/ r.xkind # "none") =>
                PKCE_STORE[r.state] = None)
    /\ [][\A t \in Threads :
            /\ StepOf(t, "callback", "exchange") =>
                   PKCE_STORE[th[t].state] = None /\ PKCE_STORE' = PKCE_STORE
            /\ StepOf(t, "callback", "pop") /\ yields[th[t].state] >= 1 =>
                   /\ th'[t].pc = "idle"
                   /\ response'.route = "callback" /\ response'.outcome = "failure"
                   /\ response'.xkind = "none" /\ response'.sans = NoAnswer
                   /\ PKCE_STORE' = PKCE_STORE
                   /\ UNCHANGED <<TOKENS, files>>]_vars
    /\ [](\A s \in States : yields[s] >= 1 => PKCE_STORE[s] = None)
    /\ [][\A s \in States :
            PKCE_STORE[s] = None /\ PKCE_STORE'[s] # None =>
                /\ response'.route = "login" /\ response'.state = s
                /\ yields[s] = 0 /\ yields'[s] = 0]_vars

\* the only login's state was popped once in this process, its callback has
\* ended without a token (no token file, an empty cache), and a second
\* callback with the state has just been refused at its pop
C29_Witness ==
    /\ issued = 1 /\ yields[StateNames[1]] = 1
    /\ \A t \in Threads : th[t] = Idle
    /\ files[TOKEN_FILE].kind = "absent" /\ ~Truthy(TOKENS.access_token)
    /\ response.route = "callback" /\ response.state = StateNames[1]
    /\ response.outcome = "failure" /\ response.xkind = "none"

\* a chat message the platform delivers to the webhook
ChatPayload ==
    [message_id |-> "1", sender |-> Value("user", "alice"), content |-> "hi",
     follower |-> Absent, foo |-> None]

\* every route of the server: the requests on worker threads, and webhook
\* deliveries on the event loop between any two of their steps
AllRoutesNext ==
    \/ Next
    \/ kick_webhook(ChatPayload)

AllRoutesSpec == Init /\ [][AllRoutesNext]_vars

\* the states some login has issued so far
Issued == {StateNames[i] : i \in 1..issued}

\* C30: the login state store holds exactly the states a login of this process
\* issued and no /callback has presented yet. It is empty when the process
\* starts; a login adds one entry, under its new state, and changes no other;
\* the pop of a /callback removes the entry of its state, if any, and changes
\* no other; every other step (the other steps of /callback, /subscribe,
\* /subscribe-ui, a webhook delivery) leaves the store as it is. No step
\* stands for the passage of time: an abandoned login's entry stays until
\* the process ends.
C30_StoreContents ==
    /\ [](AfterStartup => \A s \in States : PKCE_STORE[s] = None)
    /\ [](\A s \in States :
            /\ PKCE_STORE[s] # None => s \in Issued /\ yields[s] = 0
            /\ yields[s] >= 1 => PKCE_STORE[s] = None)
    /\ [][IF webhook' # webhook
          THEN PKCE_STORE' = PKCE_STORE
          ELSE IF response'.route = "restart"
          THEN \A s \in States : PKCE_STORE'[s] = None
          ELSE IF issued' # issued
          THEN /\ response'.route = "login" /\ response'.state \notin Issued
               /\ PKCE_STORE[response'.state] = None
               /\ PKCE_STORE'[response'.state] # None
               /\ \A s \in States : s # response'.state => PKCE_STORE'[s] = PKCE_STORE[s]
          ELSE IF \E t \in Threads : StepOf(t, "callback", "pop")
          THEN \E t \in Threads :
                   /\ StepOf(t, "callback", "pop")
                   /\ PKCE_STORE'[th[t].state] = None
                   /\ \A s \in States : s # th[t].state => PKCE_STORE'[s] = PKCE_STORE[s]
          ELSE PKCE_STORE' = PKCE_STORE]_vars

\* the first login was abandoned: its entry is still in the store after the
\* second login's callback, a /subscribe and a webhook delivery
C30_Witness ==
    /\ issued = 2
    /\ PKCE_STORE[StateNames[1]] = VerifierNames[1]
    /\ PKCE_STORE[StateNames[2]] = None /\ yields[StateNames[2]] = 1
    /\ webhook.class = "Chat"
    /\ response.route = "subscribe" /\ response.outcome = "result_json"
    /\ response.access_token = TokenNames[2]

====
